---- MODULE Spec2Model ----
(***************************************************************************)
(* mister-skinnylegs: the orchestrator (MisterSkinnylegs), its consumer    *)
(* loop (main) and the asyncio event loop they run on.                     *)
(*                                                                         *)
(* The event loop is single threaded: `running` is the callback the loop   *)
(* thread is executing, `ready` is the loop's FIFO of scheduled callbacks. *)
(* A task step of _run_artifact contains no await, so once started it is   *)
(* the only thing the thread does until the task is finished; the steps    *)
(* inside it (open the profile, call the plugin, ...) are kept apart so    *)
(* that "the extraction function is executing" is a state of the model.    *)
(***************************************************************************)
EXTENDS Integers, Sequences, FiniteSets, TLC

\* Largest number of descriptors the plugin modules export together.
MaxUnits == 2

\* Number of positional arguments _run_artifact passes to spec.function.
ArgsPassed == 2

\* Parameters of the extraction functions shipped in plugins/.
PluginParams == 3

VARIABLES
    profile_is_dir,   \* args[0] names an existing directory
    out_exists,       \* args[1] exists already
    plugins,          \* descriptors exported by the plugin modules, in load order
    pc,               \* position of main / of the library client
    error,            \* exception that left main ("none" while there is none)
    fs,               \* what main has created on disk
    log,              \* lines main has logged
    catalog,          \* the loaded catalog, in catalog order
    tstate,           \* per catalog entry: state of its _run_artifact task
    steps,            \* per catalog entry: what its invocation has done, in order
    outcome,          \* per catalog entry: what the extraction function did
    handle,           \* per catalog entry: the profile handle it opened (0: none)
    open_handles,     \* profile handles currently open
    next_handle,      \* next fresh handle identity
    ready,            \* the event loop's ready queue
    running,          \* what the loop thread is executing
    done_q,           \* as_completed's `done` queue
    getter_waiting,   \* main is suspended in done.get()
    finished,         \* tasks in the order they finished
    delivered,        \* envelopes yielded to the consumer, in order
    processed,        \* what the consumer loop did with each envelope
    one_ret           \* what run_one returned

vars == <<profile_is_dir, out_exists, plugins, pc, error, fs, log, catalog,
          tstate, steps, outcome, handle, open_handles, next_handle, ready,
          running, done_q, getter_waiting, finished, delivered, processed,
          one_ret>>

----------------------------------------------------------------------------
(* Data *)

\* File-name characters the sanitizer replaces.
Unsafe == {"/", ":"}

\* util.fs_utils.sanitize_filename: unsafe characters are replaced.
sanitize_filename(s) == [k \in 1..Len(s) |-> IF s[k] \in Unsafe THEN "_" ELSE s[k]]

\* Artifact names (strings, as sequences of characters).
Names == {<<"a", "/">>, <<"a", ":">>, <<"c">>}

\* Artifact services.
Services == {<<"X">>, <<"Y">>}

\* Extraction functions: number of required positional parameters and what
\* the body does when it is entered.
Functions ==
    { [params |-> PluginParams, body |-> "records"],
      [params |-> ArgsPassed,   body |-> "records"],
      [params |-> ArgsPassed,   body |-> "empty"],
      [params |-> ArgsPassed,   body |-> "raise"] }

\* ArtifactSpec(service, name, description, version, function, presentation)
ArtifactSpec(s, n, f) ==
    [service |-> s, name |-> n, description |-> <<"about">> \o n,
     version |-> "0.1", function |-> f]

Descriptors == {ArtifactSpec(s, n, f) : s \in Services, n \in Names, f \in Functions}

SeqsUpTo(S, n) == UNION {[1..k -> S] : k \in 0..n}

Range(s) == {s[k] : k \in 1..Len(s)}

Perms(n) == {p \in [1..n -> 1..n] : \A a, b \in 1..n : p[a] = p[b] => a = b}

Tasks == 1..Len(catalog)

None == [kind |-> "none"]

----------------------------------------------------------------------------
(* Pure parts of the code *)

\* PluginLoader: two descriptors with one name abort the load.
HasDuplicateName(ds) == \E a, b \in 1..Len(ds) : a # b /\ ds[a].name = ds[b].name

\* PluginLoader.__getitem__
Lookup(cat, n) == {k \in 1..Len(cat) : cat[k].name = n}

\* The arguments of the call spec.function(profile, self._log_callback).
CallArguments == <<"profile", "log_callback">>

\* What the call of f with these arguments does.
Call(f, args) ==
    IF Len(args) # f.params THEN "TypeError"
    ELSE IF f.body = "raise" THEN "ExtractionError"
    ELSE f.body

Raised(o) == o \in {"TypeError", "ExtractionError"}

\* result.result of the ArtifactResult a function returned.
ResultOf(o) == IF o = "records" THEN <<"record">> ELSE <<>>

\* The dict _run_artifact returns beside the spec.
Envelope(spec, o) ==
    [artifact_service |-> spec.service,
     artifact_name |-> spec.name,
     artifact_version |-> spec.version,
     artifact_description |-> spec.description,
     result |-> ResultOf(o)]

\* ChromiumProfileFolder(...): every invocation constructs a handle of its own.
NewProfileHandle(next) == next

\* A close written after the call instead of a with block: skipped when the
\* function raises.
ProfileExit_CloseAfterCall(open, h, raised) == IF raised THEN open ELSE open \ {h}

\* A handle that is opened and never closed.
ProfileExit_NoClose(open, h, raised) == open

\* __exit__ of the with statement: runs on return and on exception alike.
ProfileExit(open, h, raised) == open \ {h}

Step(i) == [kind |-> "step", task |-> i]
DoneCb(i) == [kind |-> "done_cb", task |-> i]
Wake == [kind |-> "wake", task |-> 0]

Idle == [kind |-> "idle", task |-> 0]
Main == [kind |-> "main", task |-> 0]
InTask(i) == [kind |-> "task", task |-> i]

IsDone(st) == st \in {"done", "failed"}

----------------------------------------------------------------------------
Init ==
    /\ profile_is_dir \in BOOLEAN
    /\ out_exists \in BOOLEAN
    /\ plugins \in SeqsUpTo(Descriptors, MaxUnits)
    /\ pc = "check_profile"
    /\ error = "none"
    /\ fs = {}
    /\ log = {}
    /\ catalog = <<>>
    /\ tstate = <<>>
    /\ steps = <<>>
    /\ outcome = <<>>
    /\ handle = <<>>
    /\ open_handles = {}
    /\ next_handle = 1
    /\ ready = <<>>
    /\ running = Main
    /\ done_q = <<>>
    /\ getter_waiting = FALSE
    /\ finished = <<>>
    /\ delivered = <<>>
    /\ processed = <<>>
    /\ one_ret = None

inputs == <<profile_is_dir, out_exists, plugins>>
loopvars == <<ready, running, done_q, getter_waiting>>
taskvars == <<tstate, steps, outcome, handle, open_handles, next_handle, finished>>

Raise(e) == pc' = "failed" /\ error' = e

----------------------------------------------------------------------------
(* main: startup *)

\* if not profile_input_path.is_dir(): raise NotADirectoryError
CheckProfile ==
    /\ pc = "check_profile"
    /\ IF profile_is_dir
       THEN pc' = "check_output" /\ error' = error
       ELSE Raise("NotADirectoryError")
    /\ UNCHANGED <<inputs, fs, log, catalog, taskvars, loopvars, delivered,
                   processed, one_ret>>

\* if report_out_folder_path.exists(): raise FileExistsError
CheckOutput ==
    /\ pc = "check_output"
    /\ IF out_exists
       THEN Raise("FileExistsError:output")
       ELSE pc' = "mkdir" /\ error' = error
    /\ UNCHANGED <<inputs, fs, log, catalog, taskvars, loopvars, delivered,
                   processed, one_ret>>

\* report_out_folder_path.mkdir(parents=True)
MakeOutputFolder ==
    /\ pc = "mkdir"
    /\ fs' = fs \cup {<<"outdir">>}
    /\ pc' = "open_log"
    /\ UNCHANGED <<inputs, error, log, catalog, taskvars, loopvars, delivered,
                   processed, one_ret>>

\* log_file = SimpleLog(...): out_path.open("xt")
OpenLog ==
    /\ pc = "open_log"
    /\ fs' = fs \cup {<<"logfile">>}
    /\ pc' = "construct"
    /\ UNCHANGED <<inputs, error, log, catalog, taskvars, loopvars, delivered,
                   processed, one_ret>>

\* mr_sl = MisterSkinnylegs(PLUGIN_PATH, profile_input_path, log_callback=log)
Construct ==
    /\ pc = "construct"
    /\ IF HasDuplicateName(plugins)
       THEN Raise("DuplicateArtifactName") /\ UNCHANGED <<catalog, taskvars>>
       ELSE IF ~profile_is_dir
       THEN Raise("NotADirectoryError") /\ UNCHANGED <<catalog, taskvars>>
       ELSE /\ catalog' = plugins
            /\ tstate' = [i \in 1..Len(plugins) |-> "none"]
            /\ steps' = [i \in 1..Len(plugins) |-> <<>>]
            /\ outcome' = [i \in 1..Len(plugins) |-> "none"]
            /\ handle' = [i \in 1..Len(plugins) |-> 0]
            /\ pc' = "constructed"
            /\ UNCHANGED <<error, open_handles, next_handle, finished>>
    /\ UNCHANGED <<inputs, fs, log, loopvars, delivered, processed, one_ret>>

\* log("Plugins loaded:") ... log("Processing starting...")
LogStart ==
    /\ pc = "constructed"
    /\ log' = log \cup {<<"Plugins loaded", [i \in Tasks |-> catalog[i].name]>>,
                        <<"Processing starting">>}
    /\ pc' = "processing"
    /\ UNCHANGED <<inputs, error, fs, catalog, taskvars, loopvars, delivered,
                   processed, one_ret>>

----------------------------------------------------------------------------
(* MisterSkinnylegs.run_one *)

RunOne(n) ==
    /\ pc = "constructed"
    /\ IF Lookup(catalog, n) = {}
       THEN Raise("KeyError") /\ one_ret' = one_ret
       ELSE /\ one_ret' = [kind |-> "tuple",
                           spec |-> catalog[CHOOSE k \in Lookup(catalog, n) : TRUE],
                           result |-> [kind |-> "coroutine", started |-> FALSE]]
            /\ pc' = "one_done"
            /\ error' = error
    /\ UNCHANGED <<inputs, fs, log, catalog, taskvars, loopvars, delivered,
                   processed>>

----------------------------------------------------------------------------
(* MisterSkinnylegs.run_all and asyncio.as_completed *)

\* f.result() of the task at the head of `done`, inside _wait_for_one, and the
\* `yield await coro` that hands it to the consumer or lets its exception out.
Receive(i) ==
    /\ done_q' = Tail(done_q)
    /\ IF tstate[i] = "failed"
       THEN Raise(outcome[i]) /\ delivered' = delivered
       ELSE /\ delivered' = Append(delivered,
                   [spec |-> catalog[i], result |-> Envelope(catalog[i], outcome[i])])
            /\ pc' = "got"
            /\ error' = error

\* First step of `async for ... in mr_sl.run_all()`: as_completed wraps every
\* coroutine in a task (in the iteration order of a set), then main awaits
\* done.get() on the empty queue.
StartRunAll ==
    /\ pc = "processing"
    /\ IF Len(catalog) = 0
       THEN pc' = "done" /\ UNCHANGED <<tstate, loopvars>>
       ELSE \E order \in Perms(Len(catalog)) :
            /\ tstate' = [i \in Tasks |-> "scheduled"]
            /\ ready' = [k \in Tasks |-> Step(order[k])]
            /\ getter_waiting' = TRUE
            /\ running' = Idle
            /\ pc' = "awaiting"
            /\ done_q' = done_q
    /\ UNCHANGED <<inputs, error, fs, log, catalog, steps, outcome, handle,
                   open_handles, next_handle, finished, delivered, processed,
                   one_ret>>

\* The loop thread takes a task's first (and only) step from the ready queue.
TaskStepStart ==
    /\ running = Idle
    /\ ready # <<>>
    /\ Head(ready).kind = "step"
    /\ LET i == Head(ready).task IN
        /\ running' = InTask(i)
        /\ tstate' = [tstate EXCEPT ![i] = "started"]
    /\ ready' = Tail(ready)
    /\ UNCHANGED <<inputs, pc, error, fs, log, catalog, steps, outcome, handle,
                   open_handles, next_handle, finished, done_q, getter_waiting,
                   delivered, processed, one_ret>>

\* with ChromiumProfileFolder(self._profile_folder_path) as profile:
WithEnter(i) ==
    /\ running = InTask(i)
    /\ tstate[i] = "started"
    /\ LET h == NewProfileHandle(next_handle) IN
        /\ handle' = [handle EXCEPT ![i] = h]
        /\ open_handles' = open_handles \cup {h}
    /\ next_handle' = next_handle + 1
    /\ steps' = [steps EXCEPT ![i] = Append(@, <<"open_profile">>)]
    /\ tstate' = [tstate EXCEPT ![i] = "opened"]
    /\ UNCHANGED <<inputs, pc, error, fs, log, catalog, outcome, finished,
                   loopvars, delivered, processed, one_ret>>

\* result = spec.function(profile, self._log_callback): the call is made
CallFunction(i) ==
    /\ running = InTask(i)
    /\ tstate[i] = "opened"
    /\ steps' = [steps EXCEPT ![i] = Append(@, <<"call", CallArguments>>)]
    /\ tstate' = [tstate EXCEPT ![i] = "calling"]
    /\ UNCHANGED <<inputs, pc, error, fs, log, catalog, outcome, handle,
                   open_handles, next_handle, finished, loopvars, delivered,
                   processed, one_ret>>

\* ... and returns an ArtifactResult
FunctionReturns(i) ==
    /\ running = InTask(i)
    /\ tstate[i] = "calling"
    /\ LET o == Call(catalog[i].function, CallArguments) IN
        /\ ~Raised(o)
        /\ outcome' = [outcome EXCEPT ![i] = o]
    /\ steps' = [steps EXCEPT ![i] = Append(@, <<"capture_result">>)]
    /\ tstate' = [tstate EXCEPT ![i] = "returned"]
    /\ UNCHANGED <<inputs, pc, error, fs, log, catalog, handle, open_handles,
                   next_handle, finished, loopvars, delivered, processed, one_ret>>

\* ... or raises
FunctionRaises(i) ==
    /\ running = InTask(i)
    /\ tstate[i] = "calling"
    /\ LET o == Call(catalog[i].function, CallArguments) IN
        /\ Raised(o)
        /\ outcome' = [outcome EXCEPT ![i] = o]
    /\ tstate' = [tstate EXCEPT ![i] = "raised"]
    /\ UNCHANGED <<inputs, pc, error, fs, log, catalog, steps, handle,
                   open_handles, next_handle, finished, loopvars, delivered,
                   processed, one_ret>>

\* return spec, {...}: the dict is built inside the with block
BuildEnvelope(i) ==
    /\ running = InTask(i)
    /\ tstate[i] = "returned"
    /\ steps' = [steps EXCEPT ![i] = Append(@, <<"build_envelope">>)]
    /\ tstate' = [tstate EXCEPT ![i] = "built"]
    /\ UNCHANGED <<inputs, pc, error, fs, log, catalog, outcome, handle,
                   open_handles, next_handle, finished, loopvars, delivered,
                   processed, one_ret>>

\* Leaving the with block ends the coroutine: the task is finished and its
\* done callback (as_completed's _on_completion) is scheduled.
WithExit(i) ==
    /\ running = InTask(i)
    /\ tstate[i] \in {"built", "raised"}
    /\ open_handles' = ProfileExit(open_handles, handle[i], tstate[i] = "raised")
    /\ steps' = [steps EXCEPT ![i] = Append(@, <<"close_profile">>)]
    /\ tstate' = [tstate EXCEPT ![i] = IF tstate[i] = "raised" THEN "failed" ELSE "done"]
    /\ finished' = Append(finished, i)
    /\ ready' = Append(ready, DoneCb(i))
    /\ running' = Idle
    /\ UNCHANGED <<inputs, pc, error, fs, log, catalog, outcome, handle,
                   next_handle, done_q, getter_waiting, delivered, processed,
                   one_ret>>

\* _on_completion(f): done.put_nowait(f), which wakes a waiting getter.
RunDoneCallback ==
    /\ running = Idle
    /\ ready # <<>>
    /\ Head(ready).kind = "done_cb"
    /\ done_q' = Append(done_q, Head(ready).task)
    /\ IF getter_waiting
       THEN ready' = Append(Tail(ready), Wake) /\ getter_waiting' = FALSE
       ELSE ready' = Tail(ready) /\ getter_waiting' = getter_waiting
    /\ running' = running
    /\ UNCHANGED <<inputs, pc, error, fs, log, catalog, taskvars, delivered,
                   processed, one_ret>>

\* main resumes in done.get()
WakeMain ==
    /\ running = Idle
    /\ ready # <<>>
    /\ Head(ready).kind = "wake"
    /\ pc = "awaiting"
    /\ ready' = Tail(ready)
    /\ running' = Main
    /\ Receive(Head(done_q))
    /\ UNCHANGED <<inputs, fs, log, catalog, taskvars, getter_waiting,
                   processed, one_ret>>

\* Next turn of the async for: as_completed yields len(todo) awaitables.
GetNext ==
    /\ pc = "loop"
    /\ running = Main
    /\ IF Len(delivered) = Len(catalog)
       THEN pc' = "done" /\ UNCHANGED <<error, delivered, loopvars>>
       ELSE IF done_q # <<>>
       THEN Receive(Head(done_q)) /\ UNCHANGED <<ready, running, getter_waiting>>
       ELSE /\ getter_waiting' = TRUE
            /\ running' = Idle
            /\ pc' = "awaiting"
            /\ UNCHANGED <<error, delivered, ready, done_q>>
    /\ UNCHANGED <<inputs, fs, log, catalog, taskvars, processed, one_ret>>

----------------------------------------------------------------------------
(* main: the consumer loop *)

ReportDir(spec) == <<"svcdir", sanitize_filename(spec.service)>>
ReportFile(spec) ==
    <<"report", sanitize_filename(spec.service), sanitize_filename(spec.name)>>

ProcessEnvelope ==
    /\ pc = "got"
    /\ running = Main
    /\ LET e == delivered[Len(delivered)]
           acquired == log \cup {<<"Results acquired", e.spec.name>>}
       IN IF e.result.result = <<>>
          THEN /\ log' = acquired \cup {<<"had not results, skipping", e.spec.name>>}
               /\ fs' = fs
               /\ processed' = Append(processed,
                      [name |-> e.spec.name, did |-> "skipped", created |-> {}])
               /\ pc' = "loop"
               /\ error' = error
          ELSE LET made == fs \cup {ReportDir(e.spec)} IN
               /\ log' = acquired \cup {<<"Generating output", ReportFile(e.spec)>>}
               /\ IF ReportFile(e.spec) \in fs
                  THEN /\ fs' = made
                       /\ processed' = Append(processed,
                              [name |-> e.spec.name, did |-> "FileExistsError",
                               created |-> made \ fs])
                       /\ Raise("FileExistsError:report")
                  ELSE /\ fs' = made \cup {ReportFile(e.spec)}
                       /\ processed' = Append(processed,
                              [name |-> e.spec.name, did |-> "written",
                               created |-> (made \cup {ReportFile(e.spec)}) \ fs])
                       /\ pc' = "loop"
                       /\ error' = error
    /\ UNCHANGED <<inputs, catalog, taskvars, loopvars, delivered, one_ret>>

\* A consumer of run_all that stops asking for envelopes.
Abandon ==
    /\ pc = "loop"
    /\ running = Main
    /\ pc' = "abandoned"
    /\ UNCHANGED <<inputs, error, fs, log, catalog, taskvars, loopvars,
                   delivered, processed, one_ret>>

\* asyncio.run: once main is over the tasks still pending are cancelled.
Exit ==
    /\ pc \in {"done", "failed", "abandoned", "one_done"}
    /\ pc' = IF pc = "abandoned" THEN "exited_abandoned" ELSE "exited"
    /\ tstate' = [i \in Tasks |-> IF IsDone(tstate[i]) \/ tstate[i] = "none"
                                  THEN tstate[i] ELSE "cancelled"]
    /\ UNCHANGED <<inputs, error, fs, log, catalog, steps, outcome, handle,
                   open_handles, next_handle, finished, loopvars, delivered,
                   processed, one_ret>>

Next ==
    \/ CheckProfile
    \/ CheckOutput
    \/ MakeOutputFolder
    \/ OpenLog
    \/ Construct
    \/ LogStart
    \/ \E n \in Names : RunOne(n)
    \/ StartRunAll
    \/ TaskStepStart
    \/ \E i \in Tasks : WithEnter(i)
    \/ \E i \in Tasks : CallFunction(i)
    \/ \E i \in Tasks : FunctionReturns(i)
    \/ \E i \in Tasks : FunctionRaises(i)
    \/ \E i \in Tasks : BuildEnvelope(i)
    \/ \E i \in Tasks : WithExit(i)
    \/ RunDoneCallback
    \/ WakeMain
    \/ GetNext
    \/ ProcessEnvelope
    \/ Abandon
    \/ Exit

Spec == Init /\ [][Next]_vars

----------------------------------------------------------------------------
(* Properties *)

RunAllErrors == {"TypeError", "ExtractionError"}

\* run_all has been consumed to its end: exhausted, or left by an exception.
RunAllEnded == pc = "done" \/ (pc = "failed" /\ error \in RunAllErrors)

Started(i) == tstate[i] \notin {"none", "scheduled"}

DeliveredTasks == [k \in 1..Len(delivered) |->
                     CHOOSE i \in Tasks : catalog[i] = delivered[k].spec]

IsPrefix(s, t) == Len(s) <= Len(t) /\ \A k \in 1..Len(s) : s[k] = t[k]

\* C1: when run_all() has been consumed to its end, the envelopes delivered
\* are in bijection with the catalog entries: one per registered artifact,
\* none twice, none of an unregistered artifact.
C1_OneEnvelopePerEntry ==
    RunAllEnded =>
        /\ \A i \in Tasks :
              Cardinality({k \in 1..Len(delivered) : delivered[k].spec = catalog[i]}) = 1
        /\ \A k \in 1..Len(delivered) : delivered[k].spec \in Range(catalog)

\* C2: an extraction function that raises does not end the iteration: its
\* exception does not leave run_all(), and every other entry's envelope is
\* delivered by the time the iteration is over.
C2_FailureIsolated ==
    /\ pc = "failed" => error \notin RunAllErrors
    /\ RunAllEnded =>
          \A j \in Tasks : tstate[j] = "done" =>
              \E k \in 1..Len(delivered) : delivered[k].spec = catalog[j]

\* C3: when run_one(name) returns for a registered name, the unit's
\* extraction has run to completion and the value returned is its completed
\* envelope, with the descriptor's name, service, version and description.
C3_RunOneCompletes ==
    pc = "one_done" =>
        /\ one_ret.result.kind = "envelope"
        /\ \E i \in Tasks : catalog[i] = one_ret.spec /\ IsDone(tstate[i])
        /\ one_ret.result.artifact_name = one_ret.spec.name
        /\ one_ret.result.artifact_service = one_ret.spec.service
        /\ one_ret.result.artifact_version = one_ret.spec.version
        /\ one_ret.result.artifact_description = one_ret.spec.description

ClaimedSequence ==
    << <<"open_profile">>, <<"new_storage">>,
       <<"call", <<"profile", "log_callback", "storage">> >>,
       <<"capture_result">>, <<"close_profile">>, <<"build_envelope">> >>

\* C4: every invocation goes through: open a profile handle, construct a
\* storage handle, call the function with (profile, log sink, storage),
\* capture the result, close the profile handle, build the envelope; no
\* function is called without a storage handle.
C4_InvocationSequence ==
    \A i \in Tasks :
        /\ IsPrefix(steps[i], ClaimedSequence)
        /\ \A k \in 1..Len(steps[i]) :
              steps[i][k][1] = "call" => "storage" \in Range(steps[i][k][2])

Opens(i) == Cardinality({k \in 1..Len(steps[i]) : steps[i][k] = <<"open_profile">>})

\* C5: an invocation opens one profile handle of its own, once; the handle
\* is closed when the invocation is over, whether the function returned or
\* raised; no two invocations share a handle; and none is open once
\* run_all() or run_one() is over.
C5_HandleScoped ==
    /\ \A i \in Tasks :
          /\ Opens(i) = (IF tstate[i] \in {"none", "scheduled", "started", "cancelled"}
                         THEN 0 ELSE 1)
          /\ IsDone(tstate[i]) => handle[i] # 0 /\ handle[i] \notin open_handles
    /\ \A i, j \in Tasks : i # j /\ handle[i] # 0 => handle[i] # handle[j]
    /\ \A h \in open_handles : \E i \in Tasks : running = InTask(i) /\ handle[i] = h
    /\ pc \in {"done", "failed", "abandoned", "one_done", "exited",
               "exited_abandoned"} => open_handles = {}

\* C5's case: run_all() left by the exception of a function that raised,
\* beside an invocation that returned.
C5_Witness ==
    /\ pc = "failed"
    /\ error \in RunAllErrors
    /\ \E i, j \in Tasks : tstate[i] = "failed" /\ tstate[j] = "done"
    /\ open_handles = {}

StartupErrors == {"NotADirectoryError", "FileExistsError:output", "DuplicateArtifactName"}

\* C6: when a fatal startup condition is raised, nothing has been created
\* on disk (no output folder, no log file) and no function has been invoked.
C6_StartupAbortsClean ==
    error \in StartupErrors =>
        /\ fs = {}
        /\ \A i \in Tasks : steps[i] = <<>>

\* C7: an envelope is delivered only after its invocation finished, in the
\* order of finishing, and as each invocation finishes: when the loop is
\* free, one invocation has finished and another has not, the finished
\* one's envelope can move on towards the consumer.
C7_StreamsAsCompleted ==
    /\ \A k \in 1..Len(delivered) : DeliveredTasks[k] \in Range(finished)
    /\ IsPrefix(DeliveredTasks, finished)
    /\ (/\ running = Idle
        /\ \E i \in Tasks : IsDone(tstate[i])
        /\ \E j \in Tasks : ~IsDone(tstate[j]))
       => ENABLED (RunDoneCallback \/ WakeMain)

\* What the code does instead: no envelope reaches the consumer, and no
\* exception leaves run_all(), before every invocation has finished.
AllFinishedBeforeFirstDelivery ==
    (delivered # <<>> \/ RunAllEnded) => \A i \in Tasks : IsDone(tstate[i])

\* C8: for every envelope the consumer loop has handled: an empty result
\* creates nothing and logs the skip; a non-empty result creates exactly
\* one report file, under its service's folder.
C8_ReportPerEnvelope ==
    \A k \in 1..Len(processed) :
        LET e == delivered[k]
            reports == {f \in processed[k].created : f[1] = "report"}
        IN IF e.result.result = <<>>
           THEN /\ processed[k].did = "skipped"
                /\ processed[k].created = {}
                /\ <<"had not results, skipping", e.spec.name>> \in log
           ELSE /\ processed[k].did = "written"
                /\ reports = {ReportFile(e.spec)}
                /\ ReportFile(e.spec)[2] = sanitize_filename(e.spec.service)
                /\ ReportFile(e.spec) \in fs

\* A step of the scheduler that is not a step of invocation i.
OtherProgress(i) ==
    \/ TaskStepStart
    \/ \E j \in Tasks \ {i} :
          \/ WithEnter(j) \/ CallFunction(j) \/ FunctionReturns(j)
          \/ FunctionRaises(j) \/ BuildEnvelope(j) \/ WithExit(j)
    \/ RunDoneCallback
    \/ WakeMain
    \/ GetNext
    \/ ProcessEnvelope

\* C9: while a function is executing and other invocations are not over,
\* the scheduler can take a step that is not a step of that function.
C9_NoStarvation ==
    \A i \in Tasks :
        (tstate[i] = "calling" /\ \E j \in Tasks \ {i} : ~IsDone(tstate[j]))
            => ENABLED OtherProgress(i)

\* The consumer stopped asking: it broke out of the loop, or its own loop
\* body raised.
ConsumerStopped ==
    pc \in {"abandoned", "exited_abandoned"} \/ error = "FileExistsError:report"

\* C10: once the consumer has stopped consuming, every invocation that had
\* started has run to its end: its function is over and its profile handle
\* is closed.
C10_AbandonLeavesNothingOpen ==
    ConsumerStopped =>
        \A i \in Tasks : Started(i) =>
            /\ IsDone(tstate[i])
            /\ outcome[i] # "none"
            /\ steps[i][Len(steps[i])] = <<"close_profile">>
            /\ handle[i] \notin open_handles

\* C10's case: the consumer stopped after one envelope of two, and the
\* process went on to exit.
C10_Witness ==
    /\ pc = "exited_abandoned"
    /\ Len(catalog) = 2
    /\ Len(delivered) = 1
    /\ \E i \in Tasks : Started(i) /\ catalog[i] # delivered[1].spec
====
